---- MODULE Spec2Model ----
(***************************************************************************)
(* weirdfs: a walk over a directory tree that classifies every entry       *)
(* (basename legality, extension, extended attributes, resource fork),     *)
(* accumulates aggregate reports and prints per-entry findings and an      *)
(* end-of-run summary.  The model follows the latest revision of the       *)
(* scanner (src/unnamed/part_001).                                         *)
(*                                                                         *)
(* Strings of the program whose characters the code inspects (paths,       *)
(* names, extensions, the skip flag) are sequences of one-character        *)
(* strings; the rune U+03C0 of the extension pattern is written "pi".      *)
(* Strings the code only compares whole (attribute names, resource type    *)
(* codes, error texts) are TLA+ strings.                                   *)
(***************************************************************************)
EXTENDS Integers, Sequences, FiniteSets, TLC

(***************************************************************************)
(* Bounds of the model.                                                    *)
(***************************************************************************)
\* nodes the walk visits in one run (the root included)
MaxNodes == 3
\* depth of a visited node below the scan root
MaxDepth == 2
\* nodes of the tree when the program is run twice over it
MaxNodesTwice == 2

(***************************************************************************)
(* Static configuration (part_001 lines 22-107).                           *)
(***************************************************************************)
defaultIgnoredFiles ==
    << <<".", "D", "S", "_", "S", "t", "o", "r", "e">>,
       <<"P", "k", "g", "I", "n", "f", "o">>,
       <<"p", "r", "o", "j", "e", "c", "t", "D", "a", "t", "a">>,
       <<"d", "i", "s", "p", "l", "a", "y", "S", "t", "a", "t", "e">>,
       <<"d", "o", "c", "u", "m", "e", "n", "t", "D", "a", "t", "a">>,
       <<"I", "c", "o", "n", "\r">> >>

defaultIgnoredPaths ==
    << <<".", "g", "i", "t">>,
       <<".", "s", "v", "n">>,
       <<".", "f", "s", "e", "v", "e", "n", "t", "s", "d">>,
       <<".", "T", "r", "a", "s", "h", "e", "s">>,
       <<".", "S", "p", "o", "t", "l", "i", "g", "h", "t", "-", "V", "1", "0", "0">> >>

defaultIgnoredXattrs ==
    << "com.apple.FinderInfo",
       "com.apple.Preview.UIstate.v1",
       "com.apple.TextEncoding",
       "com.apple.diskimages.recentcksum",
       "com.apple.metadata:_kTimeMachineNewestSnapshot",
       "com.apple.metadata:_kTimeMachineOldestSnapshot",
       "com.apple.metadata:com_apple_backup_excludeItem",
       "com.apple.metadata:kMDItemFinderComment",
       "com.apple.metadata:kMDItemIsScreenCapture",
       "com.apple.metadata:kMDItemScreenCaptureType",
       "com.apple.metadata:kMDItemWhereFroms",
       "com.apple.quarantine",
       "com.dropbox.attributes",
       "com.macromates.bookmarked_lines",
       "com.macromates.caret",
       "com.dropbox.attrs" >>

defaultAllowedNamesWithoutFileExtension ==
    << <<"C", "a", "p", "f", "i", "l", "e">>,
       <<"G", "e", "m", "f", "i", "l", "e">>,
       <<"R", "a", "k", "e", "f", "i", "l", "e">>,
       <<"P", "r", "o", "c", "f", "i", "l", "e">>,
       <<"C", "H", "A", "N", "G", "E", "L", "O", "G">>,
       <<"L", "I", "C", "E", "N", "C", "E">>,
       <<"L", "I", "C", "E", "N", "S", "E">>,
       <<"M", "I", "T", "-", "L", "I", "C", "E", "N", "S", "E">>,
       <<"R", "E", "A", "D", "M", "E">>,
       <<"T", "O", "D", "O">>,
       <<"V", "E", "R", "S", "I", "O", "N">>,
       <<"I", "N", "S", "T", "A", "L", "L">>,
       <<"c", "r", "o", "n", "t", "a", "b">>,
       <<"D", "e", "s", "k", "t", "o", "p", " ", "D", "B">>,
       <<"D", "e", "s", "k", "t", "o", "p", " ", "D", "F">>,
       <<"M", "o", "d", "u", "l", "e", "D", "a", "t", "a", "B">>,
       <<"O", "b", "j", "e", "c", "t", "D", "a", "t", "a", "B">> >>

illegalPathnameChars == << ":", "/", "\\" >>

illegalTrailingChars == << ".", " " >>

\* the attribute name evaluateXattrs and copyStrippedFile look for
ResourceForkAttr == "com.apple.ResourceFork"

\* the key a file without a valid extension is reported under
NoExtension ==
    <<"(", "n", "o", " ", "e", "x", "t", "e", "n", "s", "i", "o", "n", ")">>

(***************************************************************************)
(* String functions of the Go library, as the code uses them.              *)
(***************************************************************************)
UpperChars ==
    << "A", "B", "C", "D", "E", "F", "G", "H", "I", "J", "K", "L", "M",
       "N", "O", "P", "Q", "R", "S", "T", "U", "V", "W", "X", "Y", "Z" >>

LowerChars ==
    << "a", "b", "c", "d", "e", "f", "g", "h", "i", "j", "k", "l", "m",
       "n", "o", "p", "q", "r", "s", "t", "u", "v", "w", "x", "y", "z" >>

DigitChars == << "0", "1", "2", "3", "4", "5", "6", "7", "8", "9" >>

Range(s) == { s[i] : i \in 1..Len(s) }

LowerOf == [ c \in Range(UpperChars) |->
               LowerChars[CHOOSE i \in 1..Len(UpperChars) : UpperChars[i] = c] ]

UpperOf == [ c \in Range(LowerChars) |->
               UpperChars[CHOOSE i \in 1..Len(LowerChars) : LowerChars[i] = c] ]

\* the characters validFileExtension allows after the period
ExtensionChars == Range(LowerChars) \cup Range(DigitChars) \cup { "pi", "-" }

SetMax(S) == CHOOSE x \in S : \A y \in S : y <= x

SetMin(S) == CHOOSE x \in S : \A y \in S : x <= y

ToLowerChar(c) == IF c \in DOMAIN LowerOf THEN LowerOf[c] ELSE c

\* strings.ToLower
ToLower(s) == [i \in 1..Len(s) |-> ToLowerChar(s[i])]

\* filepath.Ext: the suffix from the last period of the last path element
RECURSIVE ExtFrom(_, _)
ExtFrom(path, i) ==
    IF i < 1 \/ path[i] = "/" THEN <<>>
    ELSE IF path[i] = "." THEN SubSeq(path, i, Len(path))
    ELSE ExtFrom(path, i - 1)

Ext(path) == ExtFrom(path, Len(path))

\* filepath.Base: the last path element, trailing separators dropped
RECURSIVE StripTrailingSlashes(_)
StripTrailingSlashes(path) ==
    IF path # <<>> /\ path[Len(path)] = "/"
    THEN StripTrailingSlashes(SubSeq(path, 1, Len(path) - 1))
    ELSE path

RECURSIVE LastElementFrom(_, _)
LastElementFrom(path, i) ==
    IF i < 1 \/ path[i] = "/" THEN SubSeq(path, i + 1, Len(path))
    ELSE LastElementFrom(path, i - 1)

BaseOfStripped(path, stripped) ==
    IF path = <<>> THEN <<".">>
    ELSE IF stripped = <<>> THEN <<"/">>
    ELSE LastElementFrom(stripped, Len(stripped))

Base(path) == BaseOfStripped(path, StripTrailingSlashes(path))

\* strings.Split(s, sep) for a one-character separator
\* the parts of s between the positions at (sorted) of the separator
RECURSIVE SplitAt(_, _, _)
SplitAt(s, from, at) ==
    IF at = <<>> THEN << SubSeq(s, from, Len(s)) >>
    ELSE << SubSeq(s, from, at[1] - 1) >> \o SplitAt(s, at[1] + 1, Tail(at))

Split(s, sep) == SplitAt(s, 1, SelectSeq([i \in 1..Len(s) |-> i], LAMBDA i : s[i] = sep))

SpaceChars == { " ", "\t", "\n", "\r" }

\* strings.TrimSpace
TrimSpaceAt(s, keep) ==
    IF keep = {} THEN <<>> ELSE SubSeq(s, SetMin(keep), SetMax(keep))

TrimSpace(s) == TrimSpaceAt(s, { i \in 1..Len(s) : s[i] \notin SpaceChars })

\* strings.Replace(s, "/", "__", -1)
RECURSIVE ReplaceSlashes(_)
ReplaceSlashes(s) ==
    IF s = <<>> THEN <<>>
    ELSE (IF s[1] = "/" THEN <<"_", "_">> ELSE << s[1] >>)
            \o ReplaceSlashes(Tail(s))

\* filepath.Join(dir, name) for a clean dir and a name without separators
JoinPath(d, name) ==
    IF d = <<>> THEN name
    ELSE IF d[Len(d)] = "/" THEN d \o name
    ELSE d \o <<"/">> \o name

\* validFileExtension: ^\.[a-z0-9(pi)\-]+$
validFileExtension(ext) ==
    /\ Len(ext) >= 2
    /\ ext[1] = "."
    /\ \A i \in 2..Len(ext) : ext[i] \in ExtensionChars

strictExtensionOf(ext) == IF ~validFileExtension(ext) THEN <<>> ELSE ext

strictFileExtension(path) == strictExtensionOf(ToLower(Ext(path)))

isIgnoredFile(basename) ==
    \E i \in 1..Len(defaultIgnoredFiles) : basename = defaultIgnoredFiles[i]

\* isIgnoredPath comparing the last component only: the variant C4 tells apart
isIgnoredPathOfBasename(path) ==
    \E i \in 1..Len(defaultIgnoredPaths) : Base(path) = defaultIgnoredPaths[i]

isIgnoredPath(path) ==
    \E part \in Range(Split(path, "/")) :
       \E i \in 1..Len(defaultIgnoredPaths) : part = defaultIgnoredPaths[i]

\* the filter keeping one of every name: the variant C14 tells apart
RECURSIVE removeIgnoredXattrsOnce(_)
removeIgnoredXattrsOnce(attrs) ==
    IF attrs = <<>> THEN <<>>
    ELSE (IF \/ \E i \in 1..Len(defaultIgnoredXattrs) : attrs[1] = defaultIgnoredXattrs[i]
             \/ \E j \in 2..Len(attrs) : attrs[j] = attrs[1]
          THEN <<>> ELSE << attrs[1] >>)
            \o removeIgnoredXattrsOnce(Tail(attrs))

RECURSIVE removeIgnoredXattrs(_)
removeIgnoredXattrs(attrs) ==
    IF attrs = <<>> THEN <<>>
    ELSE (IF \E i \in 1..Len(defaultIgnoredXattrs) : attrs[1] = defaultIgnoredXattrs[i]
          THEN <<>> ELSE << attrs[1] >>)
            \o removeIgnoredXattrs(Tail(attrs))

AppendNew(u, val) == IF val \in Range(u) THEN u ELSE Append(u, val)

\* uniqueStrings returning its input as it is: the variant C18 tells apart
uniqueStringsKeepingAll(input) == input

RECURSIVE uniqueStrings(_)
uniqueStrings(input) ==
    IF input = <<>> THEN <<>>
    ELSE AppendNew(uniqueStrings(SubSeq(input, 1, Len(input) - 1)), input[Len(input)])


(***************************************************************************)
(* sort.Strings: byte-wise lexicographic order.                            *)
(***************************************************************************)
\* the characters the model uses, in the order of their UTF-8 encoding
ByteOrder ==
    << "\t", "\n", "\r", " ", "(", ")", "-", ".", "/" >> \o DigitChars
       \o << ":" >> \o UpperChars \o << "\\", "_" >> \o LowerChars \o << "pi" >>

CodeOf == [ c \in Range(ByteOrder) |-> CHOOSE i \in 1..Len(ByteOrder) : ByteOrder[i] = c ]

CharCode(c) == CodeOf[c]

StrLess(a, b) ==
    \E k \in 1..(Len(b)) :
       /\ k - 1 <= Len(a)
       /\ \A j \in 1..(k - 1) : a[j] = b[j]
       /\ \/ k > Len(a)
          \/ CharCode(a[k]) < CharCode(b[k])

\* s with e inserted before the first element greater than e
InsertSorted(e, s) ==
    LET k == Cardinality({ i \in 1..Len(s) : ~StrLess(e, s[i]) })
    IN  [ i \in 1..(Len(s) + 1) |-> IF i <= k THEN s[i] ELSE IF i = k + 1 THEN e ELSE s[i - 1] ]

RECURSIVE sortStrings(_)
sortStrings(s) ==
    IF s = <<>> THEN <<>> ELSE InsertSorted(s[1], sortStrings(Tail(s)))

\* strings.ToUpper, for the severity prefix of log()
ToUpperChar(c) == IF c \in DOMAIN UpperOf THEN UpperOf[c] ELSE c

ToUpper(s) == [i \in 1..Len(s) |-> ToUpperChar(s[i])]

(***************************************************************************)
(* Findings are <<format, argument>> pairs; a printed line is              *)
(* <<severity prefix, finding>>, and the path line is <<"path", path>>.    *)
(***************************************************************************)
LevelError == <<"e", "r", "r", "o", "r">>

LevelWarn == <<"w", "a", "r", "n">>

LevelInfo == <<"i", "n", "f", "o">>

log(msg, level) == << ToUpper(level), msg >>

logMany(msgs, level) == [i \in 1..Len(msgs) |-> log(msgs[i], level)]

MapGet(m, k, default) == IF k \in DOMAIN m THEN m[k] ELSE default

MapPut(m, k, v) == [x \in DOMAIN m \cup {k} |-> IF x = k THEN v ELSE m[x]]

(***************************************************************************)
(* The external collaborators answer through the fields of x:              *)
(*   listErr, attrs   xattr.List                                           *)
(*   getErr, rsrc     xattr.Get of the resource fork                       *)
(*   derezErr, derez  DeRez: the type codes its "data '....'" lines name   *)
(*   data             the data fork (info.Size() is its length)            *)
(*   probeErr, probe  file -b                                              *)
(*   readErr, writeErr  ioutil.ReadFile / ioutil.WriteFile                 *)
(*   age              ModTime - Birthtime, in seconds                      *)
(***************************************************************************)
extractResourceTypes(x) ==
    IF x.derezErr THEN [types |-> <<>>, err |-> TRUE]
    ELSE [types |-> sortStrings(uniqueStrings(x.derez)), err |-> FALSE]

\* evaluateFork overwriting the extension's type codes instead of merging into
\* them: the variant C5 tells apart
evaluateForkReplacingTypes(x, acc, rsrc, rt, ext) ==
    [ logs |-> acc.logs,
      warns |->
          acc.warns
             \o (IF x.getErr THEN << <<"Error: %s", "xattr.Get">> >> ELSE <<>>)
             \o (IF rt.err THEN << <<"Error: %s", "DeRez">> >> ELSE <<>>)
             \o (IF Len(rt.types) > 0 /\ Len(x.data) = 0
                 THEN << << "Data fork is empty; resource fork may contain all data (%d).",
                            Len(rsrc) >> >>
                 ELSE <<>>),
      report |-> IF Len(rt.types) > 0
                 THEN [e \in DOMAIN acc.report \cup {ext} |->
                          IF e = ext
                          THEN (IF e \in DOMAIN acc.report THEN acc.report[e] ELSE 0) + 1
                          ELSE acc.report[e]]
                 ELSE acc.report,
      resourceReport |->
          IF Len(rt.types) > 0
          THEN [e \in DOMAIN acc.resourceReport \cup {ext} |->
                   IF e = ext THEN rt.types ELSE acc.resourceReport[e]]
          ELSE acc.resourceReport ]

\* evaluateFork without the test of line 194: the variant C8 tells apart
evaluateForkAlwaysReporting(x, acc, rsrc, rt, ext) ==
    [ logs |-> acc.logs,
      warns |->
          acc.warns
             \o (IF x.getErr THEN << <<"Error: %s", "xattr.Get">> >> ELSE <<>>)
             \o (IF rt.err THEN << <<"Error: %s", "DeRez">> >> ELSE <<>>)
             \o (IF Len(x.data) = 0
                 THEN << << "Data fork is empty; resource fork may contain all data (%d).",
                            Len(rsrc) >> >>
                 ELSE <<>>),
      report |-> [e \in DOMAIN acc.report \cup {ext} |->
                    IF e = ext
                    THEN (IF e \in DOMAIN acc.report THEN acc.report[e] ELSE 0) + 1
                    ELSE acc.report[e]],
      resourceReport |->
          [e \in DOMAIN acc.resourceReport \cup {ext} |->
              IF e = ext
              THEN uniqueStrings((IF e \in DOMAIN acc.resourceReport
                                  THEN acc.resourceReport[e] ELSE <<>>) \o rt.types)
              ELSE acc.resourceReport[e]] ]

\* lines 186-204: one resource-fork attribute; rt is extractResourceTypes' answer,
\* ext the key of the report, acc the findings and reports so far
evaluateFork(x, acc, rsrc, rt, ext) ==
    [ logs |-> acc.logs,
      warns |->
          acc.warns
             \o (IF x.getErr THEN << <<"Error: %s", "xattr.Get">> >> ELSE <<>>)
             \o (IF rt.err THEN << <<"Error: %s", "DeRez">> >> ELSE <<>>)
             \o (IF Len(rt.types) > 0 /\ Len(x.data) = 0
                 THEN << << "Data fork is empty; resource fork may contain all data (%d).",
                            Len(rsrc) >> >>
                 ELSE <<>>),
      report |-> IF Len(rt.types) > 0
                 THEN MapPut(acc.report, ext, MapGet(acc.report, ext, 0) + 1)
                 ELSE acc.report,
      resourceReport |->
          IF Len(rt.types) > 0
          THEN MapPut(acc.resourceReport, ext,
                      uniqueStrings(MapGet(acc.resourceReport, ext, <<>>) \o rt.types))
          ELSE acc.resourceReport ]

\* the key of the reports: the strict extension, or the sentinel
reportKey(ext) == IF ext = <<>> THEN NoExtension ELSE ext

RECURSIVE evaluateXattrsFrom(_, _, _, _, _)
evaluateXattrsFrom(i, path, attrs, x, acc) ==
    IF i > Len(attrs) THEN acc
    ELSE IF attrs[i] # ResourceForkAttr
    THEN evaluateXattrsFrom(i + 1, path, attrs, x, acc)
    ELSE evaluateXattrsFrom(i + 1, path, attrs, x,
            evaluateFork(x, acc, IF x.getErr THEN <<>> ELSE x.rsrc,
                         extractResourceTypes(x),
                         reportKey(strictFileExtension(path))))

evaluateXattrs(path, attrs, x, report, resourceReport) ==
    evaluateXattrsFrom(1, path, attrs, x,
        [ logs |-> IF Len(attrs) > 0 THEN << <<"xattrs: %s", attrs>> >> ELSE <<>>,
          warns |-> <<>>,
          report |-> report,
          resourceReport |-> resourceReport ])

(***************************************************************************)
(* isPlainTextFile: the probe's output is "empty\n" or matches             *)
(* \b((ASCII|Unicode|ISO-8859) text|very short file)\b                     *)
(***************************************************************************)
WordChars == Range(UpperChars) \cup Range(LowerChars) \cup Range(DigitChars) \cup { "_" }

\* w occurs in out between two word boundaries (w begins and ends with a word character)
HasWord(out, w) ==
    \E i \in 1..(Len(out) - Len(w) + 1) :
       /\ SubSeq(out, i, i + Len(w) - 1) = w
       /\ (i = 1 \/ out[i - 1] \notin WordChars)
       /\ (i + Len(w) - 1 = Len(out) \/ out[i + Len(w)] \notin WordChars)

PlainTextWords ==
    { <<"A", "S", "C", "I", "I", " ", "t", "e", "x", "t">>,
      <<"U", "n", "i", "c", "o", "d", "e", " ", "t", "e", "x", "t">>,
      <<"I", "S", "O", "-", "8", "8", "5", "9", " ", "t", "e", "x", "t">>,
      <<"v", "e", "r", "y", " ", "s", "h", "o", "r", "t", " ", "f", "i", "l", "e">> }

\* [panic, result]: check(err) panics when the probe cannot be run
isPlainTextFile(x) ==
    IF x.probeErr THEN [panic |-> TRUE, result |-> FALSE]
    ELSE [ panic |-> FALSE,
           result |-> \/ x.probe = <<"e", "m", "p", "t", "y", "\n">>
                      \/ \E w \in PlainTextWords : HasWord(x.probe, w) ]

\* a warning for every occurrence of the character: the variant C13 tells apart
RECURSIVE illegalCharWarnsPerOccurrence(_, _)
illegalCharWarnsPerOccurrence(base, i) ==
    IF i > Len(illegalPathnameChars) THEN <<>>
    ELSE [ k \in 1..Cardinality({ j \in 1..Len(base) : base[j] = illegalPathnameChars[i] }) |->
             <<"Name contains illegal character '%c'.", illegalPathnameChars[i]>> ]
            \o illegalCharWarnsPerOccurrence(base, i + 1)

RECURSIVE illegalCharWarns(_, _)
illegalCharWarns(base, i) ==
    IF i > Len(illegalPathnameChars) THEN <<>>
    ELSE (IF illegalPathnameChars[i] \in Range(base)
          THEN << <<"Name contains illegal character '%c'.", illegalPathnameChars[i]>> >>
          ELSE <<>>)
            \o illegalCharWarns(base, i + 1)

RECURSIVE illegalTrailingWarns(_, _)
illegalTrailingWarns(base, i) ==
    IF i > Len(illegalTrailingChars) THEN <<>>
    ELSE (IF base # <<>> /\ base[Len(base)] = illegalTrailingChars[i]
          THEN << <<"Name ends with illegal character '%c'.", illegalTrailingChars[i]>> >>
          ELSE <<>>)
            \o illegalTrailingWarns(base, i + 1)

\* lines 245-255: the missing-extension check, once the name's warnings w are known
missingExtension(base, ext, isRegular, allowText, x, w) ==
    IF isRegular /\ ext = <<>>
    THEN IF \E i \in 1..Len(defaultAllowedNamesWithoutFileExtension) :
               base = defaultAllowedNamesWithoutFileExtension[i]
         THEN [panic |-> FALSE, logs |-> <<>>, warns |-> w]
         ELSE IF allowText /\ isPlainTextFile(x).panic
         THEN [panic |-> TRUE, logs |-> <<>>, warns |-> w]
         ELSE IF allowText /\ isPlainTextFile(x).result
         THEN [panic |-> FALSE, logs |-> <<>>, warns |-> w]
         ELSE [ panic |-> FALSE, logs |-> <<>>,
                warns |-> Append(w, <<"Missing file extension.", "">>) ]
    ELSE [panic |-> FALSE, logs |-> <<>>, warns |-> w]

checkBasenameOf(base, ext, isRegular, allowText, x) ==
    missingExtension(base, ext, isRegular, allowText, x,
                     illegalCharWarns(base, 1) \o illegalTrailingWarns(base, 1))

\* [panic, logs, warns]
checkBasename(path, isRegular, allowText, x) ==
    checkBasenameOf(Base(path), strictFileExtension(path), isRegular, allowText, x)

NoCopy == [panic |-> FALSE, logs |-> <<>>, count |-> 0, write |-> <<>>]

copyStrippedTo(fileExt, destPath, attrs, ignoredExtensions, x) ==
    IF \E i \in 1..Len(ignoredExtensions) : fileExt = ignoredExtensions[i]
    THEN NoCopy
    ELSE IF ResourceForkAttr \notin Range(attrs) THEN NoCopy
    ELSE IF x.getErr \/ Len(x.rsrc) = 0 THEN NoCopy
    ELSE IF x.readErr \/ x.writeErr
    THEN [panic |-> TRUE, logs |-> <<>>, count |-> 0, write |-> <<>>]
    ELSE [ panic |-> FALSE,
           logs |-> << <<"Copied data-only version to %s", destPath>> >>,
           count |-> 1,
           write |-> << destPath, x.data >> ]

\* [panic, logs, count, write]: write is <<destPath, data>> when a copy is written
copyStrippedFile(path, attrs, dest, ignoredExtensions, x) ==
    copyStrippedTo(strictFileExtension(path), JoinPath(dest, ReplaceSlashes(path)),
                   attrs, ignoredExtensions, x)

\* main, lines 358-367: the skip flag, normalized
RECURSIVE normalizeSkip(_)
normalizeSkip(parts) ==
    IF parts = <<>> THEN <<>>
    ELSE LET ext == TrimSpace(ToLower(parts[1]))
         IN  (IF ext = <<>> THEN <<>>
              ELSE IF ext[1] # "." THEN << <<".">> \o ext >>
              ELSE << ext >>)
                \o normalizeSkip(Tail(parts))

\* printStatusLine: "quiet" when the size query fails, "panic" when the
\* slice msg[:width-1] is out of range, "shown" otherwise
printStatusLine(t, msgLen) ==
    IF ~t.ok THEN "quiet"
    ELSE IF t.width - 1 < 0 \/ t.width - 1 > (IF t.width > msgLen THEN t.width ELSE msgLen)
    THEN "panic"
    ELSE "shown"

(***************************************************************************)
(* The inputs of a run.                                                    *)
(***************************************************************************)
\* the names a directory of the scanned tree may hold, in the order Walk reads them
Names ==
    sortStrings(<< <<".", "g", "i", "t">>,
                   <<"B">>,
                   <<"P", "k", "g", "I", "n", "f", "o">>,
                   <<"c", ".", "S", "D", "2">>,
                   <<"d", ".", "s", "d", "2">> >>)

\* the scan root, after filepath.Abs
Roots == { <<"/", "r">> }

\* the user's home directory: outside the scanned tree
HomeDir == <<"/", "h">>

\* the user's home directory: outside the scanned tree, or the scan root itself
Homes == { HomeDir } \cup Roots

\* --stripResourceSkip="SD2, .PNG,"
SkipSD2AndPNG == <<"S", "D", "2", ",", " ", ".", "P", "N", "G", ",">>

\* values of --stripResourceSkip
SkipFlags == { <<>>, SkipSD2AndPNG }

\* what a TIOCGWINSZ query may answer: failure, or a width
TermStates ==
    { [ok |-> FALSE, width |-> 0], [ok |-> TRUE, width |-> 0], [ok |-> TRUE, width |-> 1] }

Kinds == { "file", "dir", "other" }

TypeBNDL == <<"B", "N", "D", "L">>

TypeIcns == <<"i", "c", "n", "s">>

\* DeRez outputs: the type codes of the "data" lines, in output order
DerezOutputs == { <<>>, << TypeIcns, TypeBNDL, TypeIcns >>, << TypeBNDL >> }

\* resource fork contents
RsrcForks == { <<>>, <<9, 9>> }

\* data fork contents
DataForks == { <<>>, <<7>> }

ProbeText == <<"A", "S", "C", "I", "I", " ", "t", "e", "x", "t", "\n">>

ProbeData == <<"d", "a", "t", "a", "\n">>

Day == 86400

\* ModTime - Birthtime, in seconds
Ages == { 0 - (Day + 1), Day + 1 }

DefaultX ==
    [ listErr |-> FALSE, attrs |-> <<>>, getErr |-> FALSE, rsrc |-> <<>>,
      derezErr |-> FALSE, derez |-> <<>>, data |-> <<>>,
      probeErr |-> FALSE, probe |-> <<>>,
      readErr |-> FALSE, writeErr |-> FALSE, age |-> 0 ]

\* a path strictly below directory d
IsUnder(d, p) ==
    /\ Len(p) > Len(d) + 1
    /\ SubSeq(p, 1, Len(d)) = d
    /\ p[Len(d) + 1] = "/"

VARIABLES
    pc,                              \* "start", "walk", "returning", "done", "panic"
    panicAt,                         \* the call that panicked, "" when none did
    exitStatus,                      \* of the process, once pc is "done" or "panic"
    debug, stripResourceForks, stripResourceSkip,
    warnOnCreationTimes, allowTextMissingExtension,    \* the flags
    dir,                             \* the scan root
    home,                            \* usr.HomeDir
    strippedDir, stripResourceIgnoredExtensions, strippedFilesCount,
    scannedFiles, scannedDirs, resourceForkTypes, resourcesByType,
    fileExtensions, rawScanned, scanErrors,
    walkAt,                          \* Walk: the node visited last, as name indexes below the root
    walkInto,                        \* Walk: the node visited last is a directory it will list
    entry,                           \* the callback's invocation: inputs, findings, output
    strippedFiles,                   \* the files written by copyStrippedFile: path -> content
    summary,                         \* the end-of-run summary, <<>> until printed
    runs,                            \* how often the program is run over the tree: 1 or 2
    run,                             \* the run in progress
    answers,                         \* what the tree and the collaborators answered in the first of two runs
    first,                           \* the counters and the report the first of two runs ended with
    applied                          \* a function called on its own: its name, arguments and result

flagVars == << debug, stripResourceForks, stripResourceSkip, warnOnCreationTimes,
               allowTextMissingExtension, dir, home >>

stripVars == << strippedDir, stripResourceIgnoredExtensions >>

scanVars == << strippedFilesCount, scannedFiles, scannedDirs, resourceForkTypes,
               resourcesByType, fileExtensions, rawScanned, scanErrors, entry,
               strippedFiles >>

walkVars == << walkAt, walkInto >>

runVars == << runs, run, first >>

vars == << pc, panicAt, exitStatus, flagVars, stripVars, scanVars, walkVars, summary,
           runVars, answers, applied >>

NoEntry ==
    [ path |-> <<>>, kind |-> "", walkErr |-> FALSE, x |-> DefaultX, stage |-> "",
      errors |-> <<>>, warns |-> <<>>, logs |-> <<>>, out |-> <<>>, copied |-> 0 ]

\* no function has been called on its own
NoCall == [ fn |-> "", args |-> <<>>, result |-> <<>> ]

NoAnswers == [ start |-> <<>>, nodes |-> <<>>, finish |-> <<>> ]

\* the state a process starts in: n runs are to be made, the home directory is one of homes
InitWith(n, homes) ==
    /\ pc = "start"
    /\ panicAt = ""
    /\ exitStatus = 0
    /\ debug \in BOOLEAN
    /\ stripResourceForks \in BOOLEAN
    /\ stripResourceSkip \in (IF stripResourceForks THEN SkipFlags ELSE { <<>> })
    /\ warnOnCreationTimes \in BOOLEAN
    /\ allowTextMissingExtension \in BOOLEAN
    /\ dir \in Roots
    /\ home \in (IF stripResourceForks THEN homes ELSE { HomeDir })
    /\ strippedDir = <<>>
    /\ stripResourceIgnoredExtensions = <<>>
    /\ strippedFilesCount = 0
    /\ scannedFiles = 0
    /\ scannedDirs = 0
    /\ resourceForkTypes = << >>
    /\ resourcesByType = << >>
    /\ fileExtensions = {}
    /\ rawScanned = 0
    /\ scanErrors = 0
    /\ walkAt = <<>>
    /\ walkInto = FALSE
    /\ entry = NoEntry
    /\ strippedFiles = << >>
    /\ summary = <<>>
    /\ runs = n
    /\ run = 1
    /\ answers = NoAnswers
    /\ first = <<>>
    /\ applied = NoCall

Init == InitWith(1, { HomeDir })

\* the first of two runs records the answers it gets, for the second run to get them again
Recording == runs = 2 /\ run = 1

Panic(at) ==
    /\ pc' = "panic"
    /\ panicAt' = at
    /\ exitStatus' = 2

\* ioutil.TempDir(usr.HomeDir, "stripped_files"): a new directory at every call
TempDir(d, n) ==
    JoinPath(d, <<"s", "t", "r", "i", "p", "p", "e", "d", "_", "f", "i", "l", "e", "s">>
                   \o << DigitChars[n + 1] >>)

\* main, lines 339-387, with what filepath.Abs, user.Current and ioutil.TempDir answer
StartWith(absOk, userOk, tempOk) ==
    IF ~absOk
    THEN Panic("filepath.Abs") /\ UNCHANGED stripVars
    ELSE IF stripResourceForks /\ ~userOk
    THEN Panic("user.Current") /\ UNCHANGED stripVars
    ELSE IF stripResourceForks /\ ~tempOk
    THEN Panic("ioutil.TempDir") /\ UNCHANGED stripVars
    ELSE /\ pc' = "walk"
         /\ UNCHANGED << panicAt, exitStatus >>
         /\ IF stripResourceForks
            THEN /\ strippedDir' = TempDir(home, run)
                 /\ stripResourceIgnoredExtensions' =
                      normalizeSkip(Split(stripResourceSkip, ","))
            ELSE UNCHANGED stripVars

\* what filepath.Abs, user.Current and ioutil.TempDir may answer: a call that
\* is not made has no answer but the default
StartAnswers ==
    { << FALSE, TRUE, TRUE >>, << TRUE, TRUE, TRUE >> }
       \cup (IF stripResourceForks
             THEN { << TRUE, FALSE, TRUE >>, << TRUE, TRUE, FALSE >> } ELSE {})

\* main, lines 339-387: resolve the root, create the strip destination
Start ==
    /\ pc = "start"
    /\ \E a \in (IF run = 1 THEN StartAnswers ELSE { answers.start }) :
          /\ StartWith(a[1], a[2], a[3])
          /\ answers' = IF Recording THEN [answers EXCEPT !.start = a] ELSE answers
    /\ UNCHANGED << flagVars, scanVars, walkVars, summary, runVars, applied >>

(***************************************************************************)
(* The callback of filepath.Walk (lines 388-466) on one node: the values   *)
(* it leaves in the program's variables, the entry's findings, and what    *)
(* it printed on standard output.                                          *)
(***************************************************************************)
DecLen(n) == IF n < 10 THEN 1 ELSE 2

WalkErrorText == "lstat: permission denied"

\* the variables as a callback that does nothing but count the node leaves them
Untouched ==
    [ rawScanned |-> rawScanned + 1, scanErrors |-> scanErrors,
      scannedFiles |-> scannedFiles, scannedDirs |-> scannedDirs,
      fileExtensions |-> fileExtensions,
      resourceForkTypes |-> resourceForkTypes,
      resourcesByType |-> resourcesByType,
      strippedFilesCount |-> strippedFilesCount,
      strippedFiles |-> strippedFiles,
      panicAt |-> "", stage |-> "",
      errors |-> <<>>, warns |-> <<>>, logs |-> <<>>, out |-> <<>>, copied |-> 0 ]

\* lines 395-403
Ignored(stage, t) ==
    [ Untouched EXCEPT !.stage = stage,
         !.panicAt = IF printStatusLine(t, DecLen(rawScanned + 1) + 16) = "panic"
                     THEN (IF stage = "ignored file"
                           THEN "printStatusLine:396" ELSE "printStatusLine:401")
                     ELSE "" ]

\* lines 405-411
ScanError(path, t) ==
    IF printStatusLine(t, 0) = "panic"
    THEN [ Untouched EXCEPT !.stage = "error", !.scanErrors = @ + 1,
                            !.panicAt = "printStatusLine:407" ]
    ELSE [ Untouched EXCEPT !.stage = "error", !.scanErrors = @ + 1,
                            !.errors = << <<"%s", WalkErrorText>> >>,
                            !.out = << << <<>>, path >>,
                                       log(<<"%s", WalkErrorText>>, LevelError) >> ]

\* lines 416-421
Counted(path, isReg) ==
    [ Untouched EXCEPT !.stage = "classified",
                       !.scannedFiles = IF isReg THEN @ + 1 ELSE @,
                       !.scannedDirs = IF isReg THEN @ ELSE @ + 1,
                       !.fileExtensions =
                            IF isReg THEN @ \cup { strictFileExtension(path) } ELSE @ ]

\* lines 450-462: rec holds the entry's findings
Reported(path, t, rec) ==
    IF Len(rec.warns) > 0 \/ Len(rec.errors) > 0
    THEN IF printStatusLine(t, 0) = "panic"
         THEN [ rec EXCEPT !.panicAt = "printStatusLine:451" ]
         ELSE [ rec EXCEPT !.out = << << <<>>, path >> >>
                                     \o logMany(rec.errors, LevelError)
                                     \o logMany(rec.warns, LevelWarn)
                                     \o logMany(rec.logs, LevelInfo) ]
    ELSE IF debug /\ Len(rec.logs) > 0
    THEN IF printStatusLine(t, 0) = "panic"
         THEN [ rec EXCEPT !.panicAt = "printStatusLine:458" ]
         ELSE [ rec EXCEPT !.out = logMany(rec.logs, LevelInfo) ]
    ELSE rec

\* lines 442-448
creationTimeWarns(x) ==
    IF warnOnCreationTimes /\ x.age > Day
    THEN << <<"Significant creation time: %v vs. %v", x.age>> >>
    ELSE <<>>

\* lines 436-448: rec holds the entry's findings so far, cp is copyStrippedFile's answer
Stripped(path, x, t, rec, cp) ==
    IF cp.panic
    THEN [ rec EXCEPT
              !.panicAt = IF x.readErr THEN "ioutil.ReadFile" ELSE "ioutil.WriteFile" ]
    ELSE Reported(path, t,
            [ rec EXCEPT
                !.strippedFilesCount = @ + cp.count,
                !.strippedFiles = IF cp.write = <<>> THEN @
                                  ELSE MapPut(@, cp.write[1], cp.write[2]),
                !.copied = cp.count,
                !.warns = @ \o creationTimeWarns(x),
                !.logs = @ \o cp.logs ])

\* lines 426-440: cb is checkBasename's answer, ev evaluateXattrs'
Evaluated(path, x, t, counted, cb, xattrNames, ev) ==
    Stripped(path, x, t,
        [ counted EXCEPT !.resourceForkTypes = ev.report,
                         !.resourcesByType = ev.resourceReport,
                         !.errors = IF x.listErr THEN << <<"%s", "xattr.List">> >> ELSE <<>>,
                         !.warns = cb.warns \o ev.warns,
                         !.logs = cb.logs \o ev.logs ],
        IF stripResourceForks
        THEN copyStrippedFile(path, xattrNames, strippedDir,
                              stripResourceIgnoredExtensions, x)
        ELSE NoCopy)

Listed(path, x, t, counted, cb, xattrNames) ==
    Evaluated(path, x, t, counted, cb, xattrNames,
              evaluateXattrs(path, xattrNames, x, resourceForkTypes, resourcesByType))

\* lines 423-431
Named(path, x, t, counted, cb) ==
    IF cb.panic
    THEN [ counted EXCEPT !.panicAt = "isPlainTextFile" ]
    ELSE Listed(path, x, t, counted, cb,
                removeIgnoredXattrs(IF x.listErr THEN <<>> ELSE x.attrs))

\* lines 413-463
Classified(path, isReg, x, t) ==
    IF printStatusLine(t, DecLen(rawScanned + 1) + 2 + Len(path)) = "panic"
    THEN [ Untouched EXCEPT !.stage = "classified", !.panicAt = "printStatusLine:414" ]
    ELSE Named(path, x, t, Counted(path, isReg),
               checkBasename(path, isReg, allowTextMissingExtension, x))

\* t is what the terminal answers to the size queries of this invocation
Callback(path, kind, walkErr, x, t) ==
    IF isIgnoredFile(Base(path)) THEN Ignored("ignored file", t)
    ELSE IF isIgnoredPath(path) THEN Ignored("ignored path", t)
    ELSE IF walkErr THEN ScanError(path, t)
    ELSE IF kind \in { "file", "dir" } THEN Classified(path, kind = "file", x, t)
    ELSE [ Untouched EXCEPT !.stage = "other" ]

\* one invocation of the callback, as a step of the program
Handle(path, kind, walkErr, x, t) ==
    \E r \in { Callback(path, kind, walkErr, x, t) } :
        /\ rawScanned' = r.rawScanned
        /\ scanErrors' = r.scanErrors
        /\ scannedFiles' = r.scannedFiles
        /\ scannedDirs' = r.scannedDirs
        /\ fileExtensions' = r.fileExtensions
        /\ resourceForkTypes' = r.resourceForkTypes
        /\ resourcesByType' = r.resourcesByType
        /\ strippedFilesCount' = r.strippedFilesCount
        /\ strippedFiles' = r.strippedFiles
        /\ entry' = [ path |-> path, kind |-> kind, walkErr |-> walkErr, x |-> x,
                      stage |-> r.stage, errors |-> r.errors, warns |-> r.warns,
                      logs |-> r.logs, out |-> r.out, copied |-> r.copied ]
        /\ IF r.panicAt # ""
           THEN Panic(r.panicAt)
           ELSE pc' = "returning" /\ UNCHANGED << panicAt, exitStatus >>

(***************************************************************************)
(* What the collaborators may answer for a node.  A field the callback     *)
(* never reads for the node keeps its default.  Only a regular file        *)
(* carries a resource fork, and the directories of the tree were created   *)
(* when they were last modified.                                           *)
(***************************************************************************)
AttrLists(kind) ==
    { <<>>, << "com.apple.FinderInfo", "com.custom.tag" >> }
       \cup (IF kind = "file" THEN { << "com.apple.FinderInfo", ResourceForkAttr >> } ELSE {})

AttrInputs(kind) ==
    { [DefaultX EXCEPT !.listErr = TRUE] }
       \cup { [DefaultX EXCEPT !.attrs = a] : a \in AttrLists(kind) }

ForkInputs(x) ==
    IF ResourceForkAttr \notin Range(x.attrs) THEN { x }
    ELSE { [x EXCEPT !.getErr = g[1], !.rsrc = g[2], !.derezErr = d[1], !.derez = d[2],
                     !.data = f] :
              g \in { <<TRUE, <<>> >> } \cup { <<FALSE, r>> : r \in RsrcForks },
              d \in { <<TRUE, <<>> >> } \cup { <<FALSE, o>> : o \in DerezOutputs },
              f \in DataForks }

ProbeInputs(path, kind, x) ==
    IF /\ kind = "file"
       /\ allowTextMissingExtension
       /\ strictFileExtension(path) = <<>>
       /\ Base(path) \notin Range(defaultAllowedNamesWithoutFileExtension)
    THEN { [x EXCEPT !.probeErr = TRUE],
           [x EXCEPT !.probe = ProbeText],
           [x EXCEPT !.probe = ProbeData] }
    ELSE { x }

CopyInputs(path, x) ==
    IF /\ stripResourceForks
       /\ strictFileExtension(path) \notin Range(stripResourceIgnoredExtensions)
       /\ ResourceForkAttr \in Range(x.attrs)
       /\ ~x.getErr
       /\ Len(x.rsrc) > 0
    THEN { x, [x EXCEPT !.readErr = TRUE], [x EXCEPT !.writeErr = TRUE] }
    ELSE { x }

AgeInputs(kind, x) ==
    IF warnOnCreationTimes /\ kind = "file"
    THEN { [x EXCEPT !.age = a] : a \in Ages } ELSE { x }

Inputs(path, kind, walkErr) ==
    IF \/ isIgnoredFile(Base(path))
       \/ isIgnoredPath(path)
       \/ walkErr
       \/ kind = "other"
    THEN { DefaultX }
    ELSE UNION { UNION { UNION { UNION { AgeInputs(kind, x4) : x4 \in CopyInputs(path, x3) }
                                    : x3 \in ProbeInputs(path, kind, x2) }
                           : x2 \in ForkInputs(x1) }
                   : x1 \in AttrInputs(kind) }

(***************************************************************************)
(* filepath.Walk (line 388): the root first, then the names of every       *)
(* directory it could list, in sorted order, depth first.  The callback    *)
(* always returns nil, so Walk never skips a directory and never stops.    *)
(***************************************************************************)
RECURSIVE PathOf(_)
PathOf(rel) ==
    IF rel = <<>> THEN dir
    ELSE JoinPath(PathOf(SubSeq(rel, 1, Len(rel) - 1)), Names[rel[Len(rel)]])

\* the nodes Walk may visit next
NextRel ==
    IF rawScanned = 0 THEN { <<>> }
    ELSE (IF walkInto /\ Len(walkAt) < MaxDepth
          THEN { Append(walkAt, i) : i \in 1..Len(Names) }
          ELSE {})
         \cup UNION { { Append(SubSeq(walkAt, 1, j - 1), i) :
                           i \in (walkAt[j] + 1)..Len(Names) }
                      : j \in 1..Len(walkAt) }

\* Walk calls the callback on the node rel
VisitNode(rel, path, kind, walkErr, x, t) ==
    /\ Handle(path, kind, walkErr, x, t)
    /\ walkAt' = rel
    /\ walkInto' = (kind = "dir" /\ ~walkErr)
    /\ answers' = IF Recording
                  THEN [answers EXCEPT !.nodes =
                           Append(@, [ rel |-> rel, kind |-> kind, walkErr |-> walkErr,
                                       x |-> x, t |-> t ])]
                  ELSE answers

\* a second run visits the nodes of the first, and gets the answers of the first
Visit ==
    /\ pc = "walk"
    /\ IF run = 1
       THEN /\ rawScanned < (IF runs = 1 THEN MaxNodes ELSE MaxNodesTwice)
            /\ \E rel \in NextRel :
                  \E path \in { PathOf(rel) } :
                     \E kind \in Kinds, walkErr \in BOOLEAN :
                        \E x \in Inputs(path, kind, walkErr), t \in TermStates :
                           VisitNode(rel, path, kind, walkErr, x, t)
       ELSE /\ rawScanned < Len(answers.nodes)
            /\ \E n \in { answers.nodes[rawScanned + 1] } :
                  VisitNode(n.rel, PathOf(n.rel), n.kind, n.walkErr, n.x, n.t)
    /\ UNCHANGED << flagVars, stripVars, summary, runVars, applied >>

\* lines 397, 402, 410, 465: the callback returns nil and its invocation is over
Return ==
    /\ pc = "returning"
    /\ pc' = "walk"
    /\ entry' = NoEntry
    /\ UNCHANGED << panicAt, exitStatus, flagVars, stripVars, strippedFilesCount,
                    scannedFiles, scannedDirs, resourceForkTypes, resourcesByType,
                    fileExtensions, rawScanned, scanErrors, strippedFiles, walkVars,
                    summary, runVars, answers, applied >>

(***************************************************************************)
(* main, lines 468-503: Walk has returned (nil: the callback returns no    *)
(* error); clear the status line and print the summary.                    *)
(***************************************************************************)
resourceForkRequired == "[WARNING] unreadable without resource fork"

resourceForkOld == "[WARNING] old files may require resource fork"

resourceForkTypeWarnings ==
    [ e \in { <<".", "d", "i", "s", "c">>, <<".", "m", "o", "v">>, <<".", "p", "s", "d">>,
              <<".", "s", "d", "2">>, <<".", "s", "d", "2", "f">>,
              <<".", "t", "e", "x", "t", "c", "l", "i", "p", "p", "i", "n", "g">> } |->
        IF e \in { <<".", "m", "o", "v">>, <<".", "p", "s", "d">> }
        THEN resourceForkOld ELSE resourceForkRequired ]

RECURSIVE SetToSeq(_)
SetToSeq(S) ==
    IF S = {} THEN <<>>
    ELSE LET e == CHOOSE e \in S : TRUE IN << e >> \o SetToSeq(S \ { e })

RECURSIVE JoinStrings(_, _)
JoinStrings(ss, sep) ==
    IF ss = <<>> THEN <<>>
    ELSE IF Len(ss) = 1 THEN ss[1]
    ELSE ss[1] \o sep \o JoinStrings(Tail(ss), sep)

\* the rows of the resource-fork table
ResourceForkTable ==
    LET exts == sortStrings(SetToSeq(DOMAIN resourceForkTypes))
    IN  [ i \in 1..Len(exts) |->
            [ ext |-> exts[i],
              count |-> resourceForkTypes[exts[i]],
              types |-> sortStrings(MapGet(resourcesByType, exts[i], <<>>)),
              warning |-> MapGet(resourceForkTypeWarnings, exts[i], "") ] ]

\* lines 470-503, with what the terminal answers to the size query of line 471
FinishWith(t) ==
    IF printStatusLine(t, 0) = "panic"
    THEN /\ Panic("printStatusLine:471")
         /\ UNCHANGED << summary, resourcesByType >>
    ELSE /\ pc' = "done"
         /\ exitStatus' = 0
         /\ UNCHANGED panicAt
         /\ resourcesByType' =
               [ e \in DOMAIN resourcesByType |->
                   IF e \in DOMAIN resourceForkTypes
                   THEN sortStrings(resourcesByType[e]) ELSE resourcesByType[e] ]
         /\ summary' =
               << [ scannedDirs |-> scannedDirs, scannedFiles |-> scannedFiles,
                    scanErrors |-> scanErrors,
                    table |-> ResourceForkTable,
                    stripped |-> IF stripResourceForks
                                 THEN << strippedFilesCount, strippedDir >> ELSE <<>>,
                    extensions |->
                        TrimSpace(JoinStrings(sortStrings(SetToSeq(fileExtensions)),
                                              <<" ">>)) ] >>

\* Walk returns when it has visited the whole tree: in a second run, the nodes of the first
Finish ==
    /\ pc = "walk"
    /\ IF run = 1 THEN rawScanned >= 1 ELSE rawScanned = Len(answers.nodes)
    /\ \E t \in (IF run = 1 THEN TermStates ELSE { answers.finish }) :
          /\ FinishWith(t)
          /\ answers' = IF Recording THEN [answers EXCEPT !.finish = t] ELSE answers
    /\ UNCHANGED << flagVars, stripVars, walkVars, strippedFilesCount, scannedFiles,
                    scannedDirs, resourceForkTypes, fileExtensions, rawScanned,
                    scanErrors, entry, strippedFiles, runVars, applied >>

Next == Start \/ Visit \/ Return \/ Finish

Spec == Init /\ [][Next]_vars

(***************************************************************************)
(* Two runs of the program over one tree.  The second run starts when the  *)
(* first has ended and has left the scanned tree as it found it; it has    *)
(* the flags of the first and gets the answers the first got.  The files   *)
(* the first run wrote are still there.                                    *)
(***************************************************************************)
\* what the program has created: the strip destination and the copies in it
Created ==
    DOMAIN strippedFiles \cup (IF strippedDir = <<>> THEN {} ELSE { strippedDir })

\* what the program has created below the scan root
TreeWrites == { p \in Created : IsUnder(dir, p) }

\* the final counters and the resource-fork report of a run
Results ==
    [ scannedDirs |-> scannedDirs, scannedFiles |-> scannedFiles,
      scanErrors |-> scanErrors, strippedFilesCount |-> strippedFilesCount,
      counts |-> resourceForkTypes,
      types |-> [ e \in DOMAIN resourcesByType |-> Range(resourcesByType[e]) ] ]

\* a second run that goes on counting where the first ended: the variant C9 tells apart
AgainKeepingCounters ==
    /\ pc \in { "done", "panic" }
    /\ run < runs
    /\ TreeWrites = {}
    /\ run' = run + 1
    /\ first' = << Results >>
    /\ pc' = "start"
    /\ panicAt' = ""
    /\ exitStatus' = 0
    /\ strippedDir' = <<>>
    /\ stripResourceIgnoredExtensions' = <<>>
    /\ rawScanned' = 0
    /\ walkAt' = <<>>
    /\ walkInto' = FALSE
    /\ entry' = NoEntry
    /\ summary' = <<>>
    /\ UNCHANGED << flagVars, strippedFiles, runs, answers, strippedFilesCount,
                    scannedFiles, scannedDirs, resourceForkTypes, resourcesByType,
                    fileExtensions, scanErrors, applied >>

\* a new process: lines 350-352 and 380-386 initialise its variables
Again ==
    /\ pc \in { "done", "panic" }
    /\ run < runs
    /\ TreeWrites = {}
    /\ run' = run + 1
    /\ first' = << Results >>
    /\ pc' = "start"
    /\ panicAt' = ""
    /\ exitStatus' = 0
    /\ strippedDir' = <<>>
    /\ stripResourceIgnoredExtensions' = <<>>
    /\ strippedFilesCount' = 0
    /\ scannedFiles' = 0
    /\ scannedDirs' = 0
    /\ resourceForkTypes' = << >>
    /\ resourcesByType' = << >>
    /\ fileExtensions' = {}
    /\ rawScanned' = 0
    /\ scanErrors' = 0
    /\ walkAt' = <<>>
    /\ walkInto' = FALSE
    /\ entry' = NoEntry
    /\ summary' = <<>>
    /\ UNCHANGED << flagVars, strippedFiles, runs, answers, applied >>

\* the flags that add findings to an entry and change nothing else are off
InitTwice == InitWith(2, Homes) /\ ~debug /\ ~warnOnCreationTimes

NextTwice == Start \/ Visit \/ Return \/ Finish \/ Again

SpecTwice == InitTwice /\ [][NextTwice]_vars

(***************************************************************************)
(* A run over one tree of four nodes:                                      *)
(*     /r    /r/B    /r/B/c.SD2    /r/B__c.SD2                             *)
(* which filepath.Walk (line 388) delivers in this order.                  *)
(***************************************************************************)
NameB == <<"B">>

NameCSD2 == <<"c", ".", "S", "D", "2">>

NameBCSD2 == <<"B", "_", "_", "c", ".", "S", "D", "2">>

\* the nodes, in the order of the walk: the names from the root, and the kind
FlatTree ==
    << [ rel |-> <<>>, names |-> <<>>, kind |-> "dir" ],
       [ rel |-> <<1>>, names |-> << NameB >>, kind |-> "dir" ],
       [ rel |-> <<1, 1>>, names |-> << NameB, NameCSD2 >>, kind |-> "file" ],
       [ rel |-> <<2>>, names |-> << NameBCSD2 >>, kind |-> "file" ] >>

\* the path Walk builds (filepath.Join) for the names below directory d
RECURSIVE PathUnder(_, _)
PathUnder(d, names) ==
    IF names = <<>> THEN d
    ELSE PathUnder(JoinPath(d, Head(names)), Tail(names))

\* Walk calls the callback on the next node of the tree
VisitFlat ==
    /\ pc = "walk"
    /\ rawScanned < Len(FlatTree)
    /\ \E n \in { FlatTree[rawScanned + 1] } :
          \E path \in { PathUnder(dir, n.names) } :
             \E x \in Inputs(path, n.kind, FALSE), t \in TermStates :
                VisitNode(n.rel, path, n.kind, FALSE, x, t)
    /\ UNCHANGED << flagVars, stripVars, summary, runVars, applied >>

InitFlat == Init /\ stripResourceForks /\ ~debug /\ ~warnOnCreationTimes

NextFlat == Start \/ VisitFlat \/ Return \/ Finish

SpecFlat == InitFlat /\ [][NextFlat]_vars

(***************************************************************************)
(* checkBasename (lines 232-257) and removeIgnoredXattrs (lines 163-178)   *)
(* called on their own, on names and attribute lists of any content.       *)
(***************************************************************************)
MaxNameLen == 3

MaxAttrs == 3

\* the characters of the bounded names
NameChars == { "a", "A", "2", ".", ":", "\\", " ", "-" }

\* names of files and directories
NameStrings ==
    UNION { [ 1..n -> NameChars ] : n \in 1..MaxNameLen }
       \cup { <<"R", "E", "A", "D", "M", "E">>,
              <<"r", "e", "a", "d", "m", "e">>,
              <<"F", "O", "O", ".", "T", "X", "T">>,
              <<"R", "E", "A", "D", "M", "E", ".", "t", "x", "t", ".">>,
              <<"a", ":", "b", ":", "c", "\\">>,
              <<"e", ".", "pi">> }

\* the paths checkBasename is called with: the names below the scan root, and
\* the root of the filesystem
NamePaths == { JoinPath(dir, name) : name \in NameStrings } \cup { <<"/">> }

\* attribute names, one of them twice in defaultIgnoredXattrs' company
AttrNames == { "com.apple.FinderInfo", "com.apple.quarantine", "com.custom.tag",
               ResourceForkAttr }

AttrSequences == UNION { [ 1..n -> AttrNames ] : n \in 0..MaxAttrs }

\* line 423: checkBasename(path, info, *allowTextMissingExtension)
ApplyCheckBasename ==
    /\ pc = "start"
    /\ applied = NoCall
    /\ \E path \in NamePaths, isRegular \in BOOLEAN :
          \E x \in ProbeInputs(path, IF isRegular THEN "file" ELSE "dir", DefaultX) :
             applied' = [ fn |-> "checkBasename",
                          args |-> [ path |-> path, isRegular |-> isRegular, x |-> x ],
                          result |-> checkBasename(path, isRegular,
                                                   allowTextMissingExtension, x) ]
    /\ UNCHANGED << pc, panicAt, exitStatus, flagVars, stripVars, scanVars, walkVars,
                    summary, runVars, answers >>

\* line 431: removeIgnoredXattrs(xattrNames)
ApplyRemoveIgnoredXattrs ==
    /\ pc = "start"
    /\ applied = NoCall
    /\ \E attrs \in AttrSequences :
          applied' = [ fn |-> "removeIgnoredXattrs",
                       args |-> [ attrs |-> attrs, ignored |-> defaultIgnoredXattrs ],
                       result |-> removeIgnoredXattrs(attrs) ]
    /\ UNCHANGED << pc, panicAt, exitStatus, flagVars, stripVars, scanVars, walkVars,
                    summary, runVars, answers >>

InitCalls == Init /\ ~debug /\ ~stripResourceForks /\ ~warnOnCreationTimes

NextCalls == ApplyCheckBasename \/ ApplyRemoveIgnoredXattrs

SpecCalls == InitCalls /\ [][NextCalls]_vars

(***************************************************************************)
(* Readings of the callback's invocation, for the properties below.        *)
(***************************************************************************)
\* the step is an invocation of the callback
Invoked == rawScanned' = rawScanned + 1

\* the invocation went as far as evaluateXattrs (line 432)
Inspected ==
    /\ entry.stage = "classified"
    /\ panicAt \notin { "printStatusLine:414", "isPlainTextFile" }

\* the entry carries the resource-fork attribute
HasFork == ResourceForkAttr \in Range(entry.x.attrs)

\* the disassembler answered, with at least one type code
TypesExtracted == ~entry.x.derezErr /\ entry.x.derez # <<>>

\* a finding of findings reports the failure of the call named
Reports(findings, call) ==
    \E i \in 1..Len(findings) :
       /\ findings[i][1] \in { "%s", "Error: %s" }
       /\ findings[i][2] = call

\* a warning of the entry says the data fork is empty
EmptyForkWarnings ==
    { i \in 1..Len(entry.warns) :
         entry.warns[i][1] = "Data fork is empty; resource fork may contain all data (%d)." }

\* a path component is a name of the ignored-directory list
IgnoredDirectoryNames ==
    { <<".", "g", "i", "t">>, <<".", "s", "v", "n">>,
      <<".", "f", "s", "e", "v", "e", "n", "t", "s", "d">>,
      <<".", "T", "r", "a", "s", "h", "e", "s">>,
      <<".", "S", "p", "o", "t", "l", "i", "g", "h", "t", "-", "V", "1", "0", "0">> }

HasIgnoredComponent(path) ==
    \E i \in 1..Len(path), j \in 1..Len(path) :
       /\ i <= j
       /\ SubSeq(path, i, j) \in IgnoredDirectoryNames
       /\ (i = 1 \/ path[i - 1] = "/")
       /\ (j = Len(path) \/ path[j + 1] = "/")

\* the extensions each value of the skip flag excludes from stripping
SkippedExtensions ==
    [ f \in SkipFlags |->
        IF f = <<>> THEN {}
        ELSE { <<".", "s", "d", "2">>, <<".", "p", "n", "g">> } ]

(***************************************************************************)
(* C1                                                                      *)
(***************************************************************************)
\* C1: classification never aborts the walk: no failure of a per-entry step
\* (the content-type probe, reading or writing the stripped copy, listing the
\* attributes, fetching the resource fork, the disassembler) ends the run, and
\* each is in the findings of the entry.
C1_ClassificationNeverAborts ==
    /\ panicAt \notin { "isPlainTextFile", "ioutil.ReadFile", "ioutil.WriteFile" }
    /\ Inspected =>
          /\ entry.x.listErr => Reports(entry.errors, "xattr.List")
          /\ (HasFork /\ entry.x.getErr) =>
                Reports(entry.errors \o entry.warns, "xattr.Get")
          /\ (HasFork /\ entry.x.derezErr) =>
                Reports(entry.errors \o entry.warns, "DeRez")

(***************************************************************************)
(* C2                                                                      *)
(***************************************************************************)
\* the only node of the walk was the root, and it was delivered with an error
RootUnreadable == rawScanned = 1 /\ scanErrors = 1

\* C2: a run whose scan root cannot be read, or whose strip destination cannot
\* be created, ends with a non-zero exit status and prints no summary.
C2_WalkThatCannotStartIsFatal ==
    (pc \in { "done", "panic" } /\ (RootUnreadable \/ panicAt = "ioutil.TempDir")) =>
        (exitStatus # 0 /\ summary = <<>>)

(***************************************************************************)
(* C3                                                                      *)
(***************************************************************************)
\* C3: a node that is not ignored and is delivered with a walk error raises the
\* scan-error count by one, has its path and the error printed with the error
\* severity, changes no other counter or report, and the walk goes on; an
\* ignored node delivered with an error leaves the scan-error count alone.
C3_ScanErrorIsCountedAndPrinted ==
    [][ (Invoked /\ entry'.walkErr) =>
           IF isIgnoredFile(Base(entry'.path)) \/ HasIgnoredComponent(entry'.path)
           THEN scanErrors' = scanErrors
           ELSE /\ scanErrors' = scanErrors + 1
                /\ entry'.out = << << <<>>, entry'.path >>,
                                   << <<"E", "R", "R", "O", "R">>, <<"%s", WalkErrorText>> >> >>
                /\ UNCHANGED << scannedFiles, scannedDirs, fileExtensions,
                                resourceForkTypes, resourcesByType,
                                strippedFilesCount, strippedFiles >>
                /\ pc' = "returning" ]_vars

(***************************************************************************)
(* C4                                                                      *)
(***************************************************************************)
\* C4: an entry whose path has a component of the ignored-directory list is
\* never classified: its invocation changes no counter, no extension, no
\* resource-fork report, makes no copy, and has and prints no finding.
C4_IgnoredPathNeverClassified ==
    [][ (Invoked /\ HasIgnoredComponent(entry'.path)) =>
           /\ UNCHANGED << scannedFiles, scannedDirs, scanErrors, fileExtensions,
                           resourceForkTypes, resourcesByType,
                           strippedFilesCount, strippedFiles >>
           /\ entry'.errors = <<>>
           /\ entry'.warns = <<>>
           /\ entry'.logs = <<>>
           /\ entry'.out = <<>>
           /\ entry'.copied = 0 ]_vars

\* a file below a .git directory of a tree with a counted directory was
\* delivered, with an error
C4_Witness ==
    /\ pc = "returning"
    /\ scannedDirs = 1
    /\ entry.kind = "file"
    /\ entry.walkErr
    /\ Len(walkAt) = 2
    /\ Names[walkAt[1]] = <<".", "g", "i", "t">>
    /\ Names[walkAt[2]] = <<"c", ".", "S", "D", "2">>

(***************************************************************************)
(* C5                                                                      *)
(***************************************************************************)
\* C5: an inspected entry with the resource-fork attribute and a non-empty
\* disassembler result raises the count of its extension (or of the sentinel)
\* by one and merges its type codes into that extension's; no other
\* extension's count or types change; when its data fork is empty it gets an
\* empty-data-fork warning with the length of the resource fork.
C5_ForkWithTypesIsReported ==
    [][ (Invoked /\ Inspected' /\ HasFork' /\ TypesExtracted') =>
           \E k \in { reportKey(strictFileExtension(entry'.path)) } :
              /\ DOMAIN resourceForkTypes' = DOMAIN resourceForkTypes \cup { k }
              /\ DOMAIN resourcesByType' = DOMAIN resourcesByType \cup { k }
              /\ resourceForkTypes'[k] = MapGet(resourceForkTypes, k, 0) + 1
              /\ Range(resourcesByType'[k]) =
                    Range(MapGet(resourcesByType, k, <<>>)) \cup Range(entry'.x.derez)
              /\ \A e \in DOMAIN resourceForkTypes \ { k } :
                    resourceForkTypes'[e] = resourceForkTypes[e]
              /\ \A e \in DOMAIN resourcesByType \ { k } :
                    resourcesByType'[e] = resourcesByType[e]
              /\ Len(entry'.x.data) = 0 =>
                    /\ EmptyForkWarnings' # {}
                    /\ \A i \in EmptyForkWarnings' :
                          ~entry'.x.getErr => entry'.warns[i][2] = Len(entry'.x.rsrc) ]_vars

\* the second file with extension .sd2 had types to merge into those of the
\* first, and its empty data fork was warned about
C5_Witness ==
    /\ Inspected /\ HasFork /\ TypesExtracted
    /\ <<".", "s", "d", "2">> \in DOMAIN resourceForkTypes
    /\ resourceForkTypes[<<".", "s", "d", "2">>] = 2
    /\ Len(resourcesByType[<<".", "s", "d", "2">>]) = 2
    /\ entry.x.derez = << TypeBNDL >>
    /\ Len(entry.x.data) = 0
    /\ EmptyForkWarnings # {}

(***************************************************************************)
(* C6                                                                      *)
(***************************************************************************)
\* C6: an inspected entry whose data fork is empty and whose resource fork is
\* not gets the empty-data-fork warning with the length of the resource fork,
\* whatever the disassembler answers.
C6_EmptyDataForkIsWarned ==
    (Inspected /\ HasFork /\ ~entry.x.getErr /\ Len(entry.x.rsrc) > 0
       /\ Len(entry.x.data) = 0) =>
        \E i \in EmptyForkWarnings : entry.warns[i][2] = Len(entry.x.rsrc)

(***************************************************************************)
(* C7                                                                      *)
(***************************************************************************)
\* C7: a failure to fetch the resource fork, or of the disassembler, is among
\* the entry's errors and not among its warnings.
C7_ForkFailuresAreErrors ==
    (Inspected /\ HasFork) =>
        /\ entry.x.getErr =>
              (Reports(entry.errors, "xattr.Get") /\ ~Reports(entry.warns, "xattr.Get"))
        /\ entry.x.derezErr =>
              (Reports(entry.errors, "DeRez") /\ ~Reports(entry.warns, "DeRez"))

(***************************************************************************)
(* C8                                                                      *)
(***************************************************************************)
\* C8: a classified entry with the resource-fork attribute for which no type
\* code is extracted (the disassembler fails or names none) leaves the
\* resource-fork report unchanged.
C8_ForkWithoutTypesIsNotReported ==
    [][ (Invoked /\ entry'.stage = "classified" /\ HasFork' /\ ~TypesExtracted') =>
           UNCHANGED << resourceForkTypes, resourcesByType >> ]_vars

\* the disassembler failed on a file when the report had an extension already
C8_Witness ==
    /\ Inspected /\ HasFork
    /\ entry.x.derezErr
    /\ Len(entry.x.rsrc) > 0
    /\ DOMAIN resourceForkTypes # {}

C10_StrippedCopies ==
    [][ /\ Invoked => strippedFilesCount' = strippedFilesCount + entry'.copied
        /\ (pc' = "done" /\ stripResourceForks) =>
              summary'[1].stripped[1] = strippedFilesCount
        /\ (Invoked /\ stripResourceForks /\ Inspected') =>
              IF strictFileExtension(entry'.path) \in SkippedExtensions[stripResourceSkip]
              THEN entry'.copied = 0 /\ strippedFiles' = strippedFiles
              ELSE IF HasFork' /\ ~entry'.x.getErr /\ Len(entry'.x.rsrc) > 0
              THEN /\ entry'.copied = 1
                   /\ Cardinality(DOMAIN strippedFiles' \ DOMAIN strippedFiles) = 1
                   /\ \A d \in DOMAIN strippedFiles' \ DOMAIN strippedFiles :
                         /\ IsUnder(strippedDir, d)
                         /\ strippedFiles'[d] = entry'.x.data
                         /\ \E i \in 1..Len(entry'.logs) :
                               /\ entry'.logs[i][1] = "Copied data-only version to %s"
                               /\ entry'.logs[i][2] = d
                   /\ \A d \in DOMAIN strippedFiles : strippedFiles'[d] = strippedFiles[d]
              ELSE entry'.copied = 0 /\ strippedFiles' = strippedFiles ]_vars

(***************************************************************************)
(* C11                                                                     *)
(***************************************************************************)
\* C11: two distinct source paths copied in one run have distinct flattened
\* destinations: no stripped copy is written over one written earlier in the
\* run.
C11_CopiesNeverOverwritten ==
    [][ (Invoked /\ entry'.copied = 1) =>
           /\ Cardinality(DOMAIN strippedFiles') = Cardinality(DOMAIN strippedFiles) + 1
           /\ \A d \in DOMAIN strippedFiles : strippedFiles'[d] = strippedFiles[d] ]_vars

(***************************************************************************)
(* C12                                                                     *)
(***************************************************************************)
\* the name has a period followed, up to its end, by one or more characters
\* that lower-cased are a-z, 0-9, pi or a hyphen
HasValidExtension(name) ==
    \E i \in 1..(Len(name) - 1) :
       /\ name[i] = "."
       /\ \A j \in (i + 1)..Len(name) :
             \/ name[j] \in Range(LowerChars) \cup Range(UpperChars) \cup Range(DigitChars)
             \/ name[j] \in { "pi", "-" }

\* the warnings checkBasename has appended with the format fmt
WarningsOf(fmt) ==
    { i \in 1..Len(applied.result.warns) : applied.result.warns[i][1] = fmt }

\* C12: a regular file gets the "Missing file extension." warning exactly when
\* its name has no valid extension, is not in the allow-list, and it is not so
\* that the plain-text fallback is on and the probe calls it empty or text; a
\* directory never gets it.
C12_MissingExtensionWarned ==
    (applied.fn = "checkBasename") =>
       \E name \in { Base(applied.args.path) } :
          /\ Cardinality(WarningsOf("Missing file extension.")) <= 1
          /\ WarningsOf("Missing file extension.") # {}
                <=> /\ applied.args.isRegular
                    /\ ~HasValidExtension(name)
                    /\ name \notin Range(defaultAllowedNamesWithoutFileExtension)
                    /\ ~(allowTextMissingExtension /\ applied.args.x.probe = ProbeText)

(***************************************************************************)
(* C13                                                                     *)
(***************************************************************************)
\* the illegal-character warnings of checkBasename that name the character c
IllegalCharWarnings(c) ==
    { i \in WarningsOf("Name contains illegal character '%c'.") :
         applied.result.warns[i][2] = c }

C14_FilterKeepsTheOthers ==
    (applied.fn = "removeIgnoredXattrs") =>
       /\ applied.result =
             SelectSeq(applied.args.attrs, LAMBDA a : a \notin Range(applied.args.ignored))
       /\ applied.args.attrs = << "com.apple.FinderInfo", "com.custom.tag" >>
             => applied.result = << "com.custom.tag" >>

\* a name that is not ignored, given twice around an ignored one, was returned twice
C14_Witness ==
    /\ applied.fn = "removeIgnoredXattrs"
    /\ applied.args.attrs = << "com.custom.tag", "com.apple.FinderInfo", "com.custom.tag" >>
    /\ applied.result = << "com.custom.tag", "com.custom.tag" >>

(***************************************************************************)
(* C15                                                                     *)
(***************************************************************************)
\* the calls of printStatusLine
StatusLineCalls ==
    { "printStatusLine:396", "printStatusLine:401", "printStatusLine:407",
      "printStatusLine:414", "printStatusLine:451", "printStatusLine:458",
      "printStatusLine:471" }

\* C15: whatever the terminal answers (no size, or any width, 0 and 1
\* included), no call of printStatusLine ends the run.
C15_StatusLineNeverEndsTheRun ==
    panicAt \notin StatusLineCalls

(***************************************************************************)
(* C16                                                                     *)
(***************************************************************************)
\* the invocation went as far as the creation-time check (line 442)
CreationTimeChecked ==
    /\ Inspected
    /\ panicAt \notin { "ioutil.ReadFile", "ioutil.WriteFile" }

\* a warning of the entry is about its creation time
CreationTimeWarnings ==
    { i \in 1..Len(entry.warns) :
         entry.warns[i][1] = "Significant creation time: %v vs. %v" }

\* C16: with --warnOnCreationTimes, an entry gets a creation-time warning
\* exactly when its creation and modification times are more than 24 hours
\* apart, whichever is the later.
C16_CreationTimeEitherWay ==
    (warnOnCreationTimes /\ CreationTimeChecked) =>
       (CreationTimeWarnings # {}
          <=> (entry.x.age > Day \/ 0 - entry.x.age > Day))

(***************************************************************************)
(* C17                                                                     *)
(***************************************************************************)
\* the lines that print the findings fs with the severity prefix
PrintedWith(prefix, fs) == [ i \in 1..Len(fs) |-> << prefix, fs[i] >> ]

\* C17: a classified entry with a warning or an error prints its path, then
\* its errors, then its warnings, then its informational findings, each with
\* its severity; one with neither prints its informational findings when
\* --debug is on and it has some, and nothing otherwise.
C17_EntryOutputOrder ==
    (entry.stage = "classified") =>
       entry.out =
          IF Len(entry.warns) > 0 \/ Len(entry.errors) > 0
          THEN << << <<>>, entry.path >> >>
                  \o PrintedWith(<<"E", "R", "R", "O", "R">>, entry.errors)
                  \o PrintedWith(<<"W", "A", "R", "N">>, entry.warns)
                  \o PrintedWith(<<"I", "N", "F", "O">>, entry.logs)
          ELSE IF debug /\ Len(entry.logs) > 0
          THEN PrintedWith(<<"I", "N", "F", "O">>, entry.logs)
          ELSE <<>>

(***************************************************************************)
(* C18                                                                     *)
(***************************************************************************)
\* the extensions of the risk table
RiskExtensions ==
    { <<".", "d", "i", "s", "c">>, <<".", "m", "o", "v">>, <<".", "p", "s", "d">>,
      <<".", "s", "d", "2">>, <<".", "s", "d", "2", "f">>,
      <<".", "t", "e", "x", "t", "c", "l", "i", "p", "p", "i", "n", "g">> }

\* every string of the sequence is less than the next
StrictlyAscending(ss) == \A i \in 1..(Len(ss) - 1) : StrLess(ss[i], ss[i + 1])

\* C18: at any time no extension's type codes hold a duplicate, and every
\* extension with a count has a count of at least 1 and at least one type
\* code; the table of the summary has one row for each such extension, with
\* its count, sorted by extension, the type codes of every row sorted, and the
\* risk annotation on the rows of the extensions of the risk table and no other.
C18_ReportWellFormed ==
    /\ \A e \in DOMAIN resourcesByType :
          Cardinality(Range(resourcesByType[e])) = Len(resourcesByType[e])
    /\ \A e \in DOMAIN resourceForkTypes :
          /\ resourceForkTypes[e] >= 1
          /\ e \in DOMAIN resourcesByType
          /\ Len(resourcesByType[e]) >= 1
    /\ summary # <<>> =>
          \E table \in { summary[1].table } :
             /\ StrictlyAscending([ i \in 1..Len(table) |-> table[i].ext ])
             /\ { table[i].ext : i \in 1..Len(table) } = DOMAIN resourceForkTypes
             /\ \A i \in 1..Len(table) :
                   /\ table[i].count = resourceForkTypes[table[i].ext]
                   /\ StrictlyAscending(table[i].types)
                   /\ Range(table[i].types) = Range(resourcesByType[table[i].ext])
                   /\ table[i].warning # "" <=> table[i].ext \in RiskExtensions

\* one file with the extension .sd2 and two type codes: one row, count 1, the
\* two codes sorted, the marker of a file unreadable without its resource fork
C18_Witness ==
    /\ pc = "done"
    /\ scannedFiles = 1
    /\ summary[1].table =
          << [ ext |-> <<".", "s", "d", "2">>, count |-> 1,
               types |-> << TypeBNDL, TypeIcns >>,
               warning |-> "[WARNING] unreadable without resource fork" ] >>

(***************************************************************************)
(* C19                                                                     *)
(***************************************************************************)
\* the invocation has no finding and has printed nothing
NoFinding ==
    /\ entry.errors = <<>>
    /\ entry.warns = <<>>
    /\ entry.logs = <<>>
    /\ entry.out = <<>>

\* C19: every node delivered is of one class, the first that applies of:
\* ignored by its basename, ignored by a component of its path, delivered with
\* an error, regular file or directory, other kind.  Its invocation raises the
\* raw count by one and the counter of its class alone (none for an ignored
\* node or a node of another kind, which has no finding either), so the raw
\* count is the sum of the classes' counts; the extension catalog grows on
\* regular files only.
C19_OneClassPerNode ==
    [][ Invoked =>
           /\ fileExtensions' # fileExtensions =>
                 (entry'.stage = "classified" /\ entry'.kind = "file")
           /\ IF isIgnoredFile(Base(entry'.path)) \/ HasIgnoredComponent(entry'.path)
              THEN /\ entry'.stage \in { "ignored file", "ignored path" }
                   /\ UNCHANGED << scanErrors, scannedFiles, scannedDirs >>
              ELSE IF entry'.walkErr
              THEN /\ entry'.stage = "error"
                   /\ scanErrors' = scanErrors + 1
                   /\ UNCHANGED << scannedFiles, scannedDirs >>
              ELSE IF entry'.kind = "file"
              THEN /\ entry'.stage = "classified"
                   /\ scannedFiles' = scannedFiles + 1
                   /\ UNCHANGED << scanErrors, scannedDirs >>
              ELSE IF entry'.kind = "dir"
              THEN /\ entry'.stage = "classified"
                   /\ scannedDirs' = scannedDirs + 1
                   /\ UNCHANGED << scanErrors, scannedFiles >>
              ELSE /\ entry'.stage = "other"
                   /\ NoFinding'
                   /\ UNCHANGED << scanErrors, scannedFiles, scannedDirs, fileExtensions,
                                   resourceForkTypes, resourcesByType,
                                   strippedFilesCount, strippedFiles >> ]_vars

(***************************************************************************)
(* C20                                                                     *)
(***************************************************************************)
\* the names of the ignored-file list
IgnoredFileNames ==
    { <<".", "D", "S", "_", "S", "t", "o", "r", "e">>,
      <<"P", "k", "g", "I", "n", "f", "o">>,
      <<"p", "r", "o", "j", "e", "c", "t", "D", "a", "t", "a">>,
      <<"d", "i", "s", "p", "l", "a", "y", "S", "t", "a", "t", "e">>,
      <<"d", "o", "c", "u", "m", "e", "n", "t", "D", "a", "t", "a">>,
      <<"I", "c", "o", "n", "\r">> }

\* the path is below a directory whose name is in the ignored-file list
BelowIgnoredFile(path) ==
    \E i \in 1..Len(path), j \in 1..Len(path) :
       /\ i <= j
       /\ SubSeq(path, i, j) \in IgnoredFileNames
       /\ (i = 1 \/ path[i - 1] = "/")
       /\ j < Len(path)
       /\ path[j + 1] = "/"

\* C20: an ignored node does not prune the walk: after a directory ignored by
\* its basename or its path the walk goes on, into the directory; and a file
\* or directory below a directory named in the ignored-file list, delivered
\* without error and not ignored itself, is classified and counted.
C20_IgnoredDirectoryNotPruned ==
    [][ Invoked =>
           /\ (entry'.stage \in { "ignored file", "ignored path" } /\ entry'.kind = "dir"
                  /\ ~entry'.walkErr) =>
                 (pc' = "returning" /\ walkInto')
           /\ (BelowIgnoredFile(entry'.path)
                  /\ Base(entry'.path) \notin IgnoredFileNames
                  /\ ~HasIgnoredComponent(entry'.path)
                  /\ ~entry'.walkErr
                  /\ entry'.kind \in { "file", "dir" }) =>
                 /\ entry'.stage = "classified"
                 /\ scannedFiles' + scannedDirs' = scannedFiles + scannedDirs + 1 ]_vars
====
